---- MODULE Spec2Model ----
(***************************************************************************)
(* Emission-factor revisions, the active-value resolver and the            *)
(* measurement emission cache of the ESG reporting API                     *)
(* (src/esg_reporting_api/src/routes/emission_factors.py and               *)
(* src/esg_reporting_api/src/routes/measurements.py).                      *)
(*                                                                         *)
(* Every handler runs in one request-scoped database session and commits   *)
(* once, so one handler is one action.  activate_revision and              *)
(* recalculate_all_emissions are modelled a second time statement by       *)
(* statement, with the session's uncommitted writes kept apart from the    *)
(* committed tables, for requests that overlap or fail before the commit.  *)
(* Float columns (factor_value,                                            *)
(* amount, calculated_emissions) are modelled as exact numbers: factor     *)
(* values and emissions are counted in units of 0.0001, amounts are whole  *)
(* numbers, so amount * factor_value is again in units of 0.0001.          *)
(* Timestamps (created_at, updated_at), link, revision_notes, created_by   *)
(* and the descriptive measurement columns are not read by any guard of    *)
(* the handlers modelled here and are left out of the rows.                *)
(***************************************************************************)
EXTENDS Integers, FiniteSets, Sequences, TLC

(* factors, revisions, measurements: the committed tables, what any       *)
(* session other than the writer reads.  last: the response of the last    *)
(* request handled as one step.  clients: the requests handled statement   *)
(* by statement, one per client.  uncommitted: the tables as the session   *)
(* that holds the database's write lock sees them, before its commit.      *)
VARIABLES factors, revisions, measurements, last, clients, uncommitted

vars == <<factors, revisions, measurements, last, clients, uncommitted>>

(* ------------------------------ bounds --------------------------------- *)
MaxFactors == 2
MaxRevisions == 3
(* Rows of each table in the runs that also write measurements (Spec).     *)
MaxFactorsWithMeasurements == 1
MaxRevisionsWithMeasurements == 1
MaxMeasurements == 1
(* Measurements in the runs where a recalculation skips a row.            *)
MaxMeasurementsScanned == 2
(* Rows of each table in the runs with overlapping activations.            *)
MaxFactorsConcurrent == 1
MaxRevisionsConcurrent == 2

(* 0.001 (measurements.py:502) in units of 0.0001 *)
Epsilon == 10

(* ------------------------------ inputs --------------------------------- *)
(* Request bodies for create_emission_factor / create_revision.  Values    *)
(* 5000 and 5004 are 0.5 and 0.5004 (closer than 0.001 for an amount of    *)
(* 1); 0 is a zero coefficient; the last body has an empty required field. *)
FactorData ==
  { [name |-> "grid", scope |-> 2, category |-> "electricity", sub_category |-> "grid_mix",
     factor_value |-> 5000, unit |-> "kgCO2e/kWh", source |-> "EPA",
     effective_date |-> 1, description |-> "base"],
    [name |-> "grid-rev", scope |-> 2, category |-> "power", sub_category |-> "grid_rev",
     factor_value |-> 5004, unit |-> "kgCO2e/MWh", source |-> "DEFRA",
     effective_date |-> 2, description |-> "revised"],
    [name |-> "offset", scope |-> 3, category |-> "credit", sub_category |-> "none",
     factor_value |-> 0, unit |-> "kgCO2e/unit", source |-> "Custom",
     effective_date |-> 3, description |-> "zero"],
    [name |-> "", scope |-> 1, category |-> "fuel", sub_category |-> "diesel",
     factor_value |-> 5000, unit |-> "kgCO2e/l", source |-> "EPA",
     effective_date |-> 1, description |-> "invalid"] }

(* The bodies the runs without measurements draw from: two valid bodies of *)
(* different values.                                                       *)
FactorDataTwoValues == {data \in FactorData : data.name \in {"grid", "offset"}}

(* Two bodies whose values differ, one of them no multiple of 0.01.        *)
FactorDataUnrounded == {data \in FactorData : data.name \in {"grid-rev", "offset"}}

Amounts == {0, 1}

(* The ids requests name: every id a row can have and one beyond.         *)
FactorIds == 1 .. (MaxFactors + 1)
RevisionIds == 1 .. (MaxRevisions + 1)
FactorIdsWithMeasurements == 1 .. (MaxFactorsWithMeasurements + 1)
RevisionIdsWithMeasurements == 1 .. (MaxRevisionsWithMeasurements + 1)
MeasurementIds == 1 .. (MaxMeasurements + 1)
FactorIdsConcurrent == 1 .. (MaxFactorsConcurrent + 1)
RevisionIdsConcurrent == 1 .. (MaxRevisionsConcurrent + 1)

(* The clients whose requests overlap in time.                             *)
Clients == {"a", "b"}

(* ------------------------------ helpers -------------------------------- *)
SetMax(S) == CHOOSE x \in S : \A y \in S : y <= x

SetMin(S) == CHOOSE x \in S : \A y \in S : x <= y

Abs(x) == IF x < 0 THEN -x ELSE x

(* Integer primary key of a SQLite table without AUTOINCREMENT: one more   *)
(* than the largest id in the table.                                       *)
new_id(table) == IF DOMAIN table = {} THEN 1 ELSE SetMax(DOMAIN table) + 1

(* The row (id :> row) added to a table, and a table without some rows.    *)
Insert(table, id, row) == [k \in DOMAIN table \cup {id} |-> IF k = id THEN row ELSE table[k]]

Remove(table, ids) == [k \in DOMAIN table \ ids |-> table[k]]

(* The resolver's "not found" result (Python None) and a found value.      *)
None == <<>>

Some(v) == <<v>>

(* Python truthiness of a resolver result: None and 0.0 are both falsy.    *)
Truthy(x) == x # None /\ x[1] # 0

(* The HTTP response of the last request.                                  *)
Response(op, code, updated, total) ==
  [op |-> op, code |-> code, updated_count |-> updated, total_measurements |-> total]

(* Required-field validation of create_emission_factor / create_revision:  *)
(* a required field that is '' is rejected.  The bodies of FactorData hold *)
(* every required field, and a number (scope, factor_value, and the date   *)
(* counted in days here) never equals '', 0 included.                      *)
MissingRequired(data) ==
  \E field \in {"name", "category", "unit", "source"} : data[field] = ""

(* ------------------------------ queries -------------------------------- *)
RevisionsOf(fid) == {r \in DOMAIN revisions : revisions[r].parent_factor_id = fid}

ActiveRevisionsOf(fid) == {r \in RevisionsOf(fid) : revisions[r].is_active}

(* A resolver that forgets the is_active filter and reads the newest       *)
(* revision.                                                               *)
get_latest_revision_value(emission_factor_id) ==
  IF RevisionsOf(emission_factor_id) # {}
  THEN Some(revisions[SetMax(RevisionsOf(emission_factor_id))].factor_value)
  ELSE IF emission_factor_id \in DOMAIN factors
       THEN Some(factors[emission_factor_id].factor_value)
       ELSE None

(* get_active_emission_factor_value: the first active revision's value,    *)
(* else the base factor's value, else None.  .first() without ORDER BY     *)
(* reads the table in rowid order.                                         *)
get_active_emission_factor_value(emission_factor_id) ==
  IF ActiveRevisionsOf(emission_factor_id) # {}
  THEN Some(revisions[SetMin(ActiveRevisionsOf(emission_factor_id))].factor_value)
  ELSE IF emission_factor_id \in DOMAIN factors
       THEN Some(factors[emission_factor_id].factor_value)
       ELSE None

(* ------------------------------ sessions ------------------------------- *)
(* No session holds the write lock.                                        *)
NoTransaction ==
  [owner |-> "none", factors |-> << >>, revisions |-> << >>, measurements |-> << >>]

(* A client with no request: op and code are the request and its status,   *)
(* pc the statement the handler has reached, revision_id and revision the  *)
(* path parameter and the row loaded for it, scan and todo the rows loaded *)
(* by Measurement.query.all() and those the loop has yet to visit;         *)
(* unresolved the rows for which the resolver returned None because its    *)
(* query raised.                                                           *)
(* overlaps is a history flag, read by no handler: the client's request    *)
(* ran while the other client's present request was running.               *)
Idle ==
  [op |-> "none", pc |-> "idle", code |-> 0, revision_id |-> 0, revision |-> None,
   scan |-> << >>, todo |-> {}, unresolved |-> {}, updated_count |-> 0,
   overlaps |-> FALSE]

InFlight(c) == clients[c].pc \notin {"idle", "done"}

(* A client starts a request.                                              *)
Begin(c, request) ==
  [d \in Clients |->
     IF d = c
     THEN [request EXCEPT !.overlaps = \E e \in Clients \ {c} : InFlight(e)]
     ELSE [clients[d] EXCEPT !.overlaps = InFlight(d)]]

(* A client's request is answered.                                         *)
Answer(c, code) ==
  [clients EXCEPT ![c] = [@ EXCEPT !.pc = "done", !.code = code,
                                   !.scan = << >>, !.todo = {},
                                   !.unresolved = {}]]

(* The session takes the write lock at its first UPDATE and works on its   *)
(* own view of the tables from then on.                                    *)
CanWrite(c) == uncommitted.owner \in {"none", c}

View(c) ==
  IF uncommitted.owner = c
  THEN uncommitted
  ELSE [owner |-> c, factors |-> factors, revisions |-> revisions,
        measurements |-> measurements]

(* ------------------------------- Init ---------------------------------- *)
Init ==
  /\ factors = << >>
  /\ revisions = << >>
  /\ measurements = << >>
  /\ last = Response("none", 0, 0, 0)
  /\ clients = [c \in Clients |-> Idle]
  /\ uncommitted = NoTransaction

(* ------------------------ emission_factors.py -------------------------- *)
create_emission_factor(data) ==
  IF MissingRequired(data)
  THEN /\ last' = Response("create_emission_factor", 400, 0, 0)
       /\ UNCHANGED <<factors, revisions, measurements>>
  ELSE /\ new_id(factors) <= MaxFactors
       /\ factors' = Insert(factors, new_id(factors),
            [name |-> data.name, scope |-> data.scope, category |-> data.category,
             sub_category |-> data.sub_category, factor_value |-> data.factor_value,
             unit |-> data.unit, source |-> data.source,
             effective_date |-> data.effective_date, description |-> data.description])
       /\ last' = Response("create_emission_factor", 200, 0, 0)
       /\ UNCHANGED <<revisions, measurements>>

(* A version taken from the number of the parent's revisions.              *)
next_version_by_count(factor_id) == Cardinality(RevisionsOf(factor_id)) + 1

(* A version taken from the maximum over the whole revision table.         *)
next_version_over_all_factors(factor_id) ==
  (IF DOMAIN revisions = {} THEN 0
   ELSE SetMax({revisions[r].version : r \in DOMAIN revisions})) + 1

(* func.max(version) over the parent's revisions, "or 0", plus one.        *)
next_version(factor_id) ==
  (IF RevisionsOf(factor_id) = {} THEN 0
   ELSE SetMax({revisions[r].version : r \in RevisionsOf(factor_id)})) + 1

create_revision(factor_id, data) ==
  IF factor_id \notin DOMAIN factors
  THEN /\ last' = Response("create_revision", 404, 0, 0)
       /\ UNCHANGED <<factors, revisions, measurements>>
  ELSE IF MissingRequired(data)
  THEN /\ last' = Response("create_revision", 400, 0, 0)
       /\ UNCHANGED <<factors, revisions, measurements>>
  ELSE /\ new_id(revisions) <= MaxRevisions
       /\ revisions' = Insert(revisions, new_id(revisions),
            [parent_factor_id |-> factor_id,
             name |-> data.name, scope |-> data.scope, category |-> data.category,
             sub_category |-> data.sub_category, factor_value |-> data.factor_value,
             unit |-> data.unit, source |-> data.source,
             effective_date |-> data.effective_date, description |-> data.description,
             version |-> next_version(factor_id),
             is_active |-> FALSE])
       /\ last' = Response("create_revision", 200, 0, 0)
       /\ UNCHANGED <<factors, measurements>>

(* An activation that does not deactivate the parent's other revisions.    *)
switch_active_keep_others(revision_id) ==
  [revisions EXCEPT ![revision_id].is_active = TRUE]

(* An activation that deactivates the parent's revisions and stops there.  *)
switch_active_only_deactivate(revision_id) ==
  [r \in DOMAIN revisions |->
     IF revisions[r].parent_factor_id = revisions[revision_id].parent_factor_id
     THEN [revisions[r] EXCEPT !.is_active = FALSE]
     ELSE revisions[r]]

(* Query.update({'is_active': False}) over the parent's revisions, then    *)
(* revision.is_active = True on the target.                                *)
switch_active(revision_id) ==
  [r \in DOMAIN revisions |->
     IF r = revision_id THEN [revisions[r] EXCEPT !.is_active = TRUE]
     ELSE IF revisions[r].parent_factor_id = revisions[revision_id].parent_factor_id
          THEN [revisions[r] EXCEPT !.is_active = FALSE]
          ELSE revisions[r]]

(* A copy that leaves the parent's factor_value alone.                     *)
mirror_without_value(factor, revision) ==
  [factor EXCEPT !.name = revision.name,
                 !.scope = revision.scope,
                 !.category = revision.category,
                 !.sub_category = revision.sub_category,
                 !.unit = revision.unit,
                 !.source = revision.source,
                 !.effective_date = revision.effective_date,
                 !.description = revision.description]

(* The copy of the revision's fields onto the parent factor row.           *)
(* A handler that activates the revision and leaves the parent row alone.  *)
mirror_nothing(factor, revision) == factor

mirror(factor, revision) ==
  [factor EXCEPT !.name = revision.name,
                 !.scope = revision.scope,
                 !.category = revision.category,
                 !.sub_category = revision.sub_category,
                 !.factor_value = revision.factor_value,
                 !.unit = revision.unit,
                 !.source = revision.source,
                 !.effective_date = revision.effective_date,
                 !.description = revision.description]

(* An activation that also rewrites the emissions of the measurements of   *)
(* the revision's factor.                                                  *)
activate_revision_recalculating(revision_id) ==
  IF revision_id \notin DOMAIN revisions
  THEN /\ last' = Response("activate_revision", 404, 0, 0)
       /\ UNCHANGED <<factors, revisions, measurements>>
  ELSE /\ revisions' = switch_active(revision_id)
       /\ factors' =
            IF revisions[revision_id].parent_factor_id \in DOMAIN factors
            THEN [factors EXCEPT ![revisions[revision_id].parent_factor_id] =
                    mirror(@, revisions[revision_id])]
            ELSE factors
       /\ measurements' =
            [m \in DOMAIN measurements |->
               IF measurements[m].emission_factor_id = revisions[revision_id].parent_factor_id
               THEN [measurements[m] EXCEPT !.calculated_emissions =
                       measurements[m].amount * revisions[revision_id].factor_value]
               ELSE measurements[m]]
       /\ last' = Response("activate_revision", 200, 0, 0)

(* A handler that looks the revision up without the not-found test: the   *)
(* attribute access on None raises and the handler answers 500.            *)
activate_revision_without_lookup_test(revision_id) ==
  IF revision_id \notin DOMAIN revisions
  THEN /\ last' = Response("activate_revision", 500, 0, 0)
       /\ UNCHANGED <<factors, revisions, measurements>>
  ELSE /\ revisions' = switch_active(revision_id)
       /\ factors' =
            IF revisions[revision_id].parent_factor_id \in DOMAIN factors
            THEN [factors EXCEPT ![revisions[revision_id].parent_factor_id] =
                    mirror(@, revisions[revision_id])]
            ELSE factors
       /\ last' = Response("activate_revision", 200, 0, 0)
       /\ UNCHANGED measurements

activate_revision(revision_id) ==
  IF revision_id \notin DOMAIN revisions
  THEN /\ last' = Response("activate_revision", 404, 0, 0)
       /\ UNCHANGED <<factors, revisions, measurements>>
  ELSE /\ revisions' = switch_active(revision_id)
       /\ factors' =
            IF revisions[revision_id].parent_factor_id \in DOMAIN factors
            THEN [factors EXCEPT ![revisions[revision_id].parent_factor_id] =
                    mirror(@, revisions[revision_id])]
            ELSE factors
       /\ last' = Response("activate_revision", 200, 0, 0)
       /\ UNCHANGED measurements

(* A handler without the test of is_active.                                *)
delete_revision_without_active_test(revision_id) ==
  IF revision_id \notin DOMAIN revisions
  THEN /\ last' = Response("delete_revision", 404, 0, 0)
       /\ UNCHANGED <<factors, revisions, measurements>>
  ELSE IF Cardinality(RevisionsOf(revisions[revision_id].parent_factor_id)) <= 1
  THEN /\ last' = Response("delete_revision", 400, 0, 0)
       /\ UNCHANGED <<factors, revisions, measurements>>
  ELSE /\ revisions' = Remove(revisions, {revision_id})
       /\ last' = Response("delete_revision", 200, 0, 0)
       /\ UNCHANGED <<factors, measurements>>

(* A handler that tests revision_count < 1.                                *)
delete_revision_count_below_one(revision_id) ==
  IF revision_id \notin DOMAIN revisions
  THEN /\ last' = Response("delete_revision", 404, 0, 0)
       /\ UNCHANGED <<factors, revisions, measurements>>
  ELSE IF revisions[revision_id].is_active
  THEN /\ last' = Response("delete_revision", 400, 0, 0)
       /\ UNCHANGED <<factors, revisions, measurements>>
  ELSE IF Cardinality(RevisionsOf(revisions[revision_id].parent_factor_id)) < 1
  THEN /\ last' = Response("delete_revision", 400, 0, 0)
       /\ UNCHANGED <<factors, revisions, measurements>>
  ELSE /\ revisions' = Remove(revisions, {revision_id})
       /\ last' = Response("delete_revision", 200, 0, 0)
       /\ UNCHANGED <<factors, measurements>>

(* A handler that deletes every inactive revision of the parent.           *)
delete_revision_all_inactive(revision_id) ==
  IF revision_id \notin DOMAIN revisions
  THEN /\ last' = Response("delete_revision", 404, 0, 0)
       /\ UNCHANGED <<factors, revisions, measurements>>
  ELSE IF revisions[revision_id].is_active
  THEN /\ last' = Response("delete_revision", 400, 0, 0)
       /\ UNCHANGED <<factors, revisions, measurements>>
  ELSE IF Cardinality(RevisionsOf(revisions[revision_id].parent_factor_id)) <= 1
  THEN /\ last' = Response("delete_revision", 400, 0, 0)
       /\ UNCHANGED <<factors, revisions, measurements>>
  ELSE /\ revisions' = Remove(revisions,
            RevisionsOf(revisions[revision_id].parent_factor_id)
              \ ActiveRevisionsOf(revisions[revision_id].parent_factor_id))
       /\ last' = Response("delete_revision", 200, 0, 0)
       /\ UNCHANGED <<factors, measurements>>

(* A handler without the test of revision_count.                           *)
delete_revision_without_count_test(revision_id) ==
  IF revision_id \notin DOMAIN revisions
  THEN /\ last' = Response("delete_revision", 404, 0, 0)
       /\ UNCHANGED <<factors, revisions, measurements>>
  ELSE IF revisions[revision_id].is_active
  THEN /\ last' = Response("delete_revision", 400, 0, 0)
       /\ UNCHANGED <<factors, revisions, measurements>>
  ELSE /\ revisions' = Remove(revisions, {revision_id})
       /\ last' = Response("delete_revision", 200, 0, 0)
       /\ UNCHANGED <<factors, measurements>>

delete_revision(revision_id) ==
  IF revision_id \notin DOMAIN revisions
  THEN /\ last' = Response("delete_revision", 404, 0, 0)
       /\ UNCHANGED <<factors, revisions, measurements>>
  ELSE IF revisions[revision_id].is_active
  THEN /\ last' = Response("delete_revision", 400, 0, 0)
       /\ UNCHANGED <<factors, revisions, measurements>>
  ELSE IF Cardinality(RevisionsOf(revisions[revision_id].parent_factor_id)) <= 1
  THEN /\ last' = Response("delete_revision", 400, 0, 0)
       /\ UNCHANGED <<factors, revisions, measurements>>
  ELSE /\ revisions' = Remove(revisions, {revision_id})
       /\ last' = Response("delete_revision", 200, 0, 0)
       /\ UNCHANGED <<factors, measurements>>

(* Measurement.emission_factor is a relationship with backref              *)
(* 'measurements' and no delete cascade (esg_models.py:55): on flush the   *)
(* ORM sets emission_factor_id of the factor's measurements to NULL, the   *)
(* column is nullable=False (esg_models.py:48), the flush raises and the   *)
(* handler rolls the whole transaction back and answers 500.               *)
delete_emission_factor(factor_id) ==
  IF factor_id \notin DOMAIN factors
  THEN /\ last' = Response("delete_emission_factor", 404, 0, 0)
       /\ UNCHANGED <<factors, revisions, measurements>>
  ELSE IF \E m \in DOMAIN measurements : measurements[m].emission_factor_id = factor_id
  THEN /\ last' = Response("delete_emission_factor", 500, 0, 0)
       /\ UNCHANGED <<factors, revisions, measurements>>
  ELSE /\ revisions' = Remove(revisions, RevisionsOf(factor_id))
       /\ factors' = Remove(factors, {factor_id})
       /\ last' = Response("delete_emission_factor", 200, 0, 0)
       /\ UNCHANGED measurements

(* -------------------------- measurements.py ---------------------------- *)
create_measurement(emission_factor_id, amount) ==
  IF emission_factor_id \notin DOMAIN factors
  THEN /\ last' = Response("create_measurement", 400, 0, 0)
       /\ UNCHANGED <<factors, revisions, measurements>>
  ELSE IF get_active_emission_factor_value(emission_factor_id) = None
  THEN /\ last' = Response("create_measurement", 400, 0, 0)
       /\ UNCHANGED <<factors, revisions, measurements>>
  ELSE /\ new_id(measurements) <= MaxMeasurementsScanned
       /\ measurements' = Insert(measurements, new_id(measurements),
            [emission_factor_id |-> emission_factor_id,
             amount |-> amount,
             calculated_emissions |->
               amount * get_active_emission_factor_value(emission_factor_id)[1]])
       /\ last' = Response("create_measurement", 201, 0, 0)
       /\ UNCHANGED <<factors, revisions>>

(* The request body of update_measurement: which of 'amount' and           *)
(* 'emission_factor_id' it holds, and their values.                        *)
UpdateBodies ==
  { data \in [has_amount : BOOLEAN, amount : Amounts,
              has_emission_factor_id : BOOLEAN,
              emission_factor_id : FactorIdsWithMeasurements] :
      /\ (~data.has_amount => data.amount = 1)
      /\ (~data.has_emission_factor_id => data.emission_factor_id = 1) }

(* A handler that recalculates only when the body holds 'amount'.          *)
update_measurement_recalculating_on_amount(measurement_id, data) ==
  IF measurement_id \notin DOMAIN measurements
  THEN /\ last' = Response("update_measurement", 500, 0, 0)
       /\ UNCHANGED <<factors, revisions, measurements>>
  ELSE IF data.has_emission_factor_id /\ data.emission_factor_id \notin DOMAIN factors
  THEN /\ last' = Response("update_measurement", 400, 0, 0)
       /\ UNCHANGED <<factors, revisions, measurements>>
  ELSE LET amount == IF data.has_amount THEN data.amount
                     ELSE measurements[measurement_id].amount
           fid == IF data.has_emission_factor_id THEN data.emission_factor_id
                  ELSE measurements[measurement_id].emission_factor_id
           active_factor_value == get_active_emission_factor_value(fid)
       IN IF data.has_amount /\ active_factor_value = None
          THEN /\ last' = Response("update_measurement", 400, 0, 0)
               /\ UNCHANGED <<factors, revisions, measurements>>
          ELSE /\ measurements' = [measurements EXCEPT ![measurement_id] =
                    [emission_factor_id |-> fid,
                     amount |-> amount,
                     calculated_emissions |->
                       IF data.has_amount
                       THEN amount * active_factor_value[1]
                       ELSE @.calculated_emissions]]
               /\ last' = Response("update_measurement", 200, 0, 0)
               /\ UNCHANGED <<factors, revisions>>

(* A handler that commits the amount before it answers 400 for an unknown *)
(* emission_factor_id.                                                     *)
update_measurement_committing_amount(measurement_id, data) ==
  IF measurement_id \notin DOMAIN measurements
  THEN /\ last' = Response("update_measurement", 500, 0, 0)
       /\ UNCHANGED <<factors, revisions, measurements>>
  ELSE IF data.has_emission_factor_id /\ data.emission_factor_id \notin DOMAIN factors
  THEN /\ last' = Response("update_measurement", 400, 0, 0)
       /\ measurements' = [measurements EXCEPT ![measurement_id].amount =
                             IF data.has_amount THEN data.amount ELSE @]
       /\ UNCHANGED <<factors, revisions>>
  ELSE LET amount == IF data.has_amount THEN data.amount
                     ELSE measurements[measurement_id].amount
           fid == IF data.has_emission_factor_id THEN data.emission_factor_id
                  ELSE measurements[measurement_id].emission_factor_id
           active_factor_value == get_active_emission_factor_value(fid)
       IN IF (data.has_amount \/ data.has_emission_factor_id) /\ active_factor_value = None
          THEN /\ last' = Response("update_measurement", 400, 0, 0)
               /\ UNCHANGED <<factors, revisions, measurements>>
          ELSE /\ measurements' = [measurements EXCEPT ![measurement_id] =
                    [emission_factor_id |-> fid,
                     amount |-> amount,
                     calculated_emissions |->
                       IF data.has_amount \/ data.has_emission_factor_id
                       THEN amount * active_factor_value[1]
                       ELSE @.calculated_emissions]]
               /\ last' = Response("update_measurement", 200, 0, 0)
               /\ UNCHANGED <<factors, revisions>>

update_measurement(measurement_id, data) ==
  IF measurement_id \notin DOMAIN measurements
  THEN /\ last' = Response("update_measurement", 500, 0, 0)
       /\ UNCHANGED <<factors, revisions, measurements>>
  ELSE IF data.has_emission_factor_id /\ data.emission_factor_id \notin DOMAIN factors
  THEN /\ last' = Response("update_measurement", 400, 0, 0)
       /\ UNCHANGED <<factors, revisions, measurements>>
  ELSE LET amount == IF data.has_amount THEN data.amount
                     ELSE measurements[measurement_id].amount
           fid == IF data.has_emission_factor_id THEN data.emission_factor_id
                  ELSE measurements[measurement_id].emission_factor_id
           active_factor_value == get_active_emission_factor_value(fid)
       IN IF (data.has_amount \/ data.has_emission_factor_id) /\ active_factor_value = None
          THEN /\ last' = Response("update_measurement", 400, 0, 0)
               /\ UNCHANGED <<factors, revisions, measurements>>
          ELSE /\ measurements' = [measurements EXCEPT ![measurement_id] =
                    [emission_factor_id |-> fid,
                     amount |-> amount,
                     calculated_emissions |->
                       IF data.has_amount \/ data.has_emission_factor_id
                       THEN amount * active_factor_value[1]
                       ELSE @.calculated_emissions]]
               /\ last' = Response("update_measurement", 200, 0, 0)
               /\ UNCHANGED <<factors, revisions>>

delete_measurement(measurement_id) ==
  IF measurement_id \notin DOMAIN measurements
  THEN /\ last' = Response("delete_measurement", 500, 0, 0)
       /\ UNCHANGED <<factors, revisions, measurements>>
  ELSE /\ measurements' = Remove(measurements, {measurement_id})
       /\ last' = Response("delete_measurement", 200, 0, 0)
       /\ UNCHANGED <<factors, revisions>>

(* A loop body without the 0.001 threshold.                                *)
needs_update_always(measurement) ==
  Truthy(get_active_emission_factor_value(measurement.emission_factor_id))

(* The two conditions of the loop body of recalculate_all_emissions:       *)
(* "if active_factor_value:" and "abs(old - new) > 0.001".                 *)
needs_update(measurement) ==
  LET active_factor_value == get_active_emission_factor_value(measurement.emission_factor_id)
  IN /\ Truthy(active_factor_value)
     /\ Abs(measurement.calculated_emissions
            - measurement.amount * active_factor_value[1]) > Epsilon

(* One iteration of the loop: the row as the loop leaves it.               *)
recalculated(measurement) ==
  IF needs_update(measurement)
  THEN [measurement EXCEPT !.calculated_emissions =
          measurement.amount
            * get_active_emission_factor_value(measurement.emission_factor_id)[1]]
  ELSE measurement

(* The rows after the loop, and the counter the loop increments.           *)
recalculated_measurements ==
  [m \in DOMAIN measurements |-> recalculated(measurements[m])]

updated_count ==
  Cardinality({m \in DOMAIN measurements : needs_update(measurements[m])})

recalculate_all_emissions ==
  /\ measurements' = recalculated_measurements
  /\ last' = Response("recalculate_all_emissions", 200, updated_count,
                      Cardinality(DOMAIN measurements))
  /\ UNCHANGED <<factors, revisions>>

(* ------------------------- reads of measurements ----------------------- *)
(* Python's round(x, 2) of a non-negative value, on values counted in      *)
(* 0.0001: the nearest multiple of 100, a tie going to the even hundredth. *)
round(x) ==
  IF x % 100 < 50 THEN x - (x % 100)
  ELSE IF x % 100 > 50 THEN x - (x % 100) + 100
  ELSE IF ((x - 50) \div 100) % 2 = 0 THEN x - 50 ELSE x + 50

(* The sum of values[k] over the keys.                                     *)
RECURSIVE SumOver(_, _)
SumOver(values, keys) ==
  IF keys = {} THEN 0
  ELSE values[SetMin(keys)] + SumOver(values, keys \ {SetMin(keys)})

(* A summary that adds up the stored column.                               *)
stored_emissions(measurement) == measurement.calculated_emissions

(* measurements.py:445-450: what one measurement adds to the summary's     *)
(* total: amount * resolver value, nothing when the value is falsy.        *)
emissions(measurement) ==
  IF Truthy(get_active_emission_factor_value(measurement.emission_factor_id))
  THEN measurement.amount
         * get_active_emission_factor_value(measurement.emission_factor_id)[1]
  ELSE 0

(* The response of a read: the status, and the fields of 'data' that the   *)
(* claims are about.                                                       *)
ReadResponse(op, total_measurements, total_emissions, data) ==
  [op |-> op, code |-> 200, updated_count |-> 0,
   total_measurements |-> total_measurements,
   total_emissions |-> total_emissions, data |-> data]

(* get_measurements_summary without date filters: every measurement is     *)
(* selected.                                                               *)
get_measurements_summary ==
  /\ last' = ReadResponse("get_measurements_summary",
               Cardinality(DOMAIN measurements),
               round(SumOver([m \in DOMAIN measurements |-> emissions(measurements[m])],
                             DOMAIN measurements)),
               << >>)
  /\ UNCHANGED <<factors, revisions, measurements>>

(* A list that returns to_dict() as it is.                                 *)
to_dict(measurement) == measurement

(* measurements.py:137-188: one entry of the list: to_dict(), with         *)
(* calculated_emissions replaced by amount * the first active revision's   *)
(* value when the factor exists and has an active revision.                *)
measurement_dict(measurement) ==
  IF /\ measurement.emission_factor_id \in DOMAIN factors
     /\ ActiveRevisionsOf(measurement.emission_factor_id) # {}
  THEN [measurement EXCEPT !.calculated_emissions =
          measurement.amount
            * revisions[SetMin(ActiveRevisionsOf(measurement.emission_factor_id))].factor_value]
  ELSE measurement

(* get_measurements without filters, all rows on one page.                 *)
get_measurements ==
  /\ last' = ReadResponse("get_measurements", 0, 0,
               [m \in DOMAIN measurements |-> measurement_dict(measurements[m])])
  /\ UNCHANGED <<factors, revisions, measurements>>

(* --------------- activate_revision, statement by statement ------------- *)
(* emission_factors.py:334-339: the revision is loaded, outside any write  *)
(* transaction; an unknown id is answered 404.                             *)
activate_revision_get(c, revision_id) ==
  /\ ~InFlight(c)
  /\ clients' =
       IF revision_id \notin DOMAIN revisions
       THEN Begin(c, [Idle EXCEPT !.op = "activate_revision", !.pc = "done",
                                  !.code = 404, !.revision_id = revision_id])
       ELSE Begin(c, [Idle EXCEPT !.op = "activate_revision", !.pc = "loaded",
                                  !.revision_id = revision_id,
                                  !.revision = Some(revisions[revision_id])])
  /\ UNCHANGED <<factors, revisions, measurements, last, uncommitted>>

(* A bulk update that leaves the rows as they are.                         *)
deactivate_none(table, parent_factor_id) == table

(* The bulk update of 341-344: is_active = False on every revision of the  *)
(* parent.                                                                 *)
deactivate_all(table, parent_factor_id) ==
  [r \in DOMAIN table |->
     IF table[r].parent_factor_id = parent_factor_id
     THEN [table[r] EXCEPT !.is_active = FALSE]
     ELSE table[r]]

(* A bulk update that is committed on its own.                             *)
activate_revision_deactivate_committing(c) ==
  /\ clients[c].op = "activate_revision"
  /\ clients[c].pc = "loaded"
  /\ CanWrite(c)
  /\ revisions' = deactivate_all(revisions, clients[c].revision[1].parent_factor_id)
  /\ uncommitted' = [View(c) EXCEPT !.revisions = revisions']
  /\ clients' = [clients EXCEPT ![c].pc = "deactivated",
                                ![c].revision = Some([@[1] EXCEPT !.is_active = FALSE])]
  /\ UNCHANGED <<factors, measurements, last>>

(* 341-344: the UPDATE opens the session's transaction and takes the       *)
(* database's write lock, which one session holds at a time; the loaded    *)
(* object is synchronised with the UPDATE.                                 *)
activate_revision_deactivate(c) ==
  /\ clients[c].op = "activate_revision"
  /\ clients[c].pc = "loaded"
  /\ CanWrite(c)
  /\ uncommitted' = [View(c) EXCEPT !.revisions =
                       deactivate_all(@, clients[c].revision[1].parent_factor_id)]
  /\ clients' = [clients EXCEPT ![c].pc = "deactivated",
                                ![c].revision = Some([@[1] EXCEPT !.is_active = FALSE])]
  /\ UNCHANGED <<factors, revisions, measurements, last>>

(* 347, written to the database by the autoflush of the query of 350.  A   *)
(* row that is gone makes the flush raise (see activate_revision_fail).    *)
activate_revision_set_active(c) ==
  /\ clients[c].op = "activate_revision"
  /\ clients[c].pc = "deactivated"
  /\ clients[c].revision_id \in DOMAIN uncommitted.revisions
  /\ uncommitted' = [uncommitted EXCEPT !.revisions[clients[c].revision_id].is_active = TRUE]
  /\ clients' = [clients EXCEPT ![c].pc = "activated",
                                ![c].revision = Some([@[1] EXCEPT !.is_active = TRUE])]
  /\ UNCHANGED <<factors, revisions, measurements, last>>

(* 350-367: the parent is loaded in the session's view, takes the values   *)
(* of the loaded revision, and the transaction is committed.               *)
activate_revision_commit(c) ==
  /\ clients[c].op = "activate_revision"
  /\ clients[c].pc = "activated"
  /\ revisions' = uncommitted.revisions
  /\ factors' =
       IF clients[c].revision[1].parent_factor_id \in DOMAIN uncommitted.factors
       THEN [uncommitted.factors EXCEPT ![clients[c].revision[1].parent_factor_id] =
               mirror(@, clients[c].revision[1])]
       ELSE uncommitted.factors
  /\ measurements' = uncommitted.measurements
  /\ uncommitted' = NoTransaction
  /\ clients' = Answer(c, 200)
  /\ UNCHANGED last

(* 374-382: a statement raises (the lock is not granted in time, the       *)
(* database reports an error); the session is rolled back and the request  *)
(* answered 500.                                                           *)
activate_revision_fail(c) ==
  /\ clients[c].op = "activate_revision"
  /\ \/ clients[c].pc = "loaded" /\ ~CanWrite(c)
     \/ clients[c].pc \in {"deactivated", "activated"}
  /\ uncommitted' = IF uncommitted.owner = c THEN NoTransaction ELSE uncommitted
  /\ clients' = Answer(c, 500)
  /\ UNCHANGED <<factors, revisions, measurements, last>>

(* ---------------- delete_revision, statement by statement -------------- *)
(* emission_factors.py:390-403: the revision is loaded, outside any write  *)
(* transaction; an unknown id is answered 404, a revision loaded as active *)
(* 400.                                                                    *)
delete_revision_get(c, revision_id) ==
  /\ ~InFlight(c)
  /\ clients' =
       IF revision_id \notin DOMAIN revisions
       THEN Begin(c, [Idle EXCEPT !.op = "delete_revision", !.pc = "done",
                                  !.code = 404, !.revision_id = revision_id])
       ELSE IF revisions[revision_id].is_active
       THEN Begin(c, [Idle EXCEPT !.op = "delete_revision", !.pc = "done",
                                  !.code = 400, !.revision_id = revision_id])
       ELSE Begin(c, [Idle EXCEPT !.op = "delete_revision", !.pc = "loaded",
                                  !.revision_id = revision_id,
                                  !.revision = Some(revisions[revision_id])])
  /\ UNCHANGED <<factors, revisions, measurements, last, uncommitted>>

(* 406-414: the parent's revisions are counted, in a query of its own; a   *)
(* count of one or less is answered 400.                                   *)
delete_revision_count(c) ==
  /\ clients[c].op = "delete_revision"
  /\ clients[c].pc = "loaded"
  /\ clients' =
       IF Cardinality(RevisionsOf(clients[c].revision[1].parent_factor_id)) <= 1
       THEN Answer(c, 400)
       ELSE [clients EXCEPT ![c].pc = "counted"]
  /\ UNCHANGED <<factors, revisions, measurements, last, uncommitted>>

(* 417-418: DELETE by primary key, flushed and committed at once; the      *)
(* loaded object is not read again.  A row that is already gone is a       *)
(* warning of the ORM, not an exception.                                   *)
delete_revision_commit(c) ==
  /\ clients[c].op = "delete_revision"
  /\ clients[c].pc = "counted"
  /\ uncommitted.owner = "none"
  /\ revisions' = [r \in DOMAIN revisions \ {clients[c].revision_id} |-> revisions[r]]
  /\ clients' = Answer(c, 200)
  /\ UNCHANGED <<factors, measurements, last, uncommitted>>

(* 425-433: the DELETE raises (the lock is not granted in time); the       *)
(* session is rolled back and the request answered 500.                    *)
delete_revision_fail(c) ==
  /\ clients[c].op = "delete_revision"
  /\ clients[c].pc = "counted"
  /\ uncommitted.owner # "none"
  /\ clients' = Answer(c, 500)
  /\ UNCHANGED <<factors, revisions, measurements, last, uncommitted>>

(* ---------------- create_revision, statement by statement -------------- *)
(* emission_factors.py:255-291: the parent is looked up (404), the body    *)
(* validated (400), the maximum version read in a query of its own, and    *)
(* the new row built from it.                                              *)
create_revision_read(c, factor_id, data) ==
  /\ ~InFlight(c)
  /\ clients' =
       IF factor_id \notin DOMAIN factors
       THEN Begin(c, [Idle EXCEPT !.op = "create_revision", !.pc = "done", !.code = 404])
       ELSE IF MissingRequired(data)
       THEN Begin(c, [Idle EXCEPT !.op = "create_revision", !.pc = "done", !.code = 400])
       ELSE Begin(c, [Idle EXCEPT !.op = "create_revision", !.pc = "built",
                        !.revision = Some(
                          [parent_factor_id |-> factor_id,
                           name |-> data.name, scope |-> data.scope,
                           category |-> data.category,
                           sub_category |-> data.sub_category,
                           factor_value |-> data.factor_value,
                           unit |-> data.unit, source |-> data.source,
                           effective_date |-> data.effective_date,
                           description |-> data.description,
                           version |-> next_version(factor_id),
                           is_active |-> FALSE])])
  /\ UNCHANGED <<factors, revisions, measurements, last, uncommitted>>

(* 297-298: INSERT and commit; no constraint of the table                  *)
(* (esg_models.py:768-792) looks at the version.                           *)
create_revision_commit(c) ==
  /\ clients[c].op = "create_revision"
  /\ clients[c].pc = "built"
  /\ uncommitted.owner = "none"
  /\ new_id(revisions) <= MaxRevisionsConcurrent
  /\ revisions' = Insert(revisions, new_id(revisions), clients[c].revision[1])
  /\ clients' = [Answer(c, 200) EXCEPT ![c].revision_id = new_id(revisions)]
  /\ UNCHANGED <<factors, measurements, last, uncommitted>>

(* 315-323: the INSERT raises; the session is rolled back and the request  *)
(* answered 500.                                                           *)
create_revision_fail(c) ==
  /\ clients[c].op = "create_revision"
  /\ clients[c].pc = "built"
  /\ clients' = Answer(c, 500)
  /\ UNCHANGED <<factors, revisions, measurements, last, uncommitted>>

(* ----------- recalculate_all_emissions, statement by statement --------- *)
(* measurements.py:493-494: every measurement is loaded.                   *)
recalculate_all_emissions_scan(c) ==
  /\ ~InFlight(c)
  /\ clients' = Begin(c, [Idle EXCEPT !.op = "recalculate_all_emissions",
                                      !.pc = "scanning",
                                      !.scan = measurements,
                                      !.todo = DOMAIN measurements])
  /\ UNCHANGED <<factors, revisions, measurements, last, uncommitted>>

(* A loop body that commits each row it changes.                           *)
recalculate_all_emissions_row_committing(c) ==
  /\ clients[c].op = "recalculate_all_emissions"
  /\ clients[c].pc = "scanning"
  /\ clients[c].todo # {}
  /\ LET m == SetMin(clients[c].todo)
         measurement == clients[c].scan[m]
     IN /\ clients' = [clients EXCEPT
              ![c].todo = @ \ {m},
              ![c].updated_count = @ + (IF needs_update(measurement) THEN 1 ELSE 0)]
        /\ measurements' = [measurements EXCEPT ![m] = recalculated(measurement)]
  /\ UNCHANGED <<factors, revisions, last, uncommitted>>

(* 496-505: one iteration; a changed row is written in the session's       *)
(* transaction (by the autoflush of the next query, or by the commit).     *)
recalculate_all_emissions_row(c) ==
  /\ clients[c].op = "recalculate_all_emissions"
  /\ clients[c].pc = "scanning"
  /\ clients[c].todo # {}
  /\ LET m == SetMin(clients[c].todo)
         measurement == clients[c].scan[m]
     IN /\ clients' = [clients EXCEPT
              ![c].todo = @ \ {m},
              ![c].updated_count = @ + (IF needs_update(measurement) THEN 1 ELSE 0)]
        /\ IF needs_update(measurement)
           THEN /\ CanWrite(c)
                /\ uncommitted' = [View(c) EXCEPT !.measurements[m] =
                                     recalculated(measurement)]
           ELSE UNCHANGED uncommitted
  /\ UNCHANGED <<factors, revisions, measurements, last>>

(* 496-497 with measurements.py:70-72: the resolver's query raises, the    *)
(* resolver prints the error and returns None, and the loop goes on to the *)
(* next row.                                                               *)
recalculate_all_emissions_row_unresolved(c) ==
  /\ clients[c].op = "recalculate_all_emissions"
  /\ clients[c].pc = "scanning"
  /\ clients[c].todo # {}
  /\ clients' = [clients EXCEPT ![c].todo = @ \ {SetMin(@)},
                                ![c].unresolved = @ \cup {SetMin(clients[c].todo)}]
  /\ UNCHANGED <<factors, revisions, measurements, last, uncommitted>>

(* 507-514: the single commit after the loop.                              *)
recalculate_all_emissions_commit(c) ==
  /\ clients[c].op = "recalculate_all_emissions"
  /\ clients[c].pc = "scanning"
  /\ clients[c].todo = {}
  /\ measurements' = View(c).measurements
  /\ uncommitted' = IF uncommitted.owner = c THEN NoTransaction ELSE uncommitted
  /\ clients' = Answer(c, 200)
  /\ UNCHANGED <<factors, revisions, last>>

(* 516-521: a statement of the loop or the commit raises; the session is   *)
(* rolled back and the request answered 500.                               *)
recalculate_all_emissions_fail(c) ==
  /\ clients[c].op = "recalculate_all_emissions"
  /\ clients[c].pc = "scanning"
  /\ uncommitted' = IF uncommitted.owner = c THEN NoTransaction ELSE uncommitted
  /\ clients' = Answer(c, 500)
  /\ UNCHANGED <<factors, revisions, measurements, last>>

(* -------------------------- auth_middleware.py ------------------------- *)
(* The clock of a request, and the expires_at values of an API key: NULL,  *)
(* a moment before the request and a moment after it.                      *)
Now == 2

ExpiresAt == {None, Some(Now - 1), Some(Now + 1)}

(* A permission 'module.action' as the pair that split('.', 1) makes of it. *)
MEASUREMENTS_READ == <<"measurements", "read">>

EMISSION_FACTORS_WRITE == <<"emission_factors", "write">>

(* The permissions argument of the decorator.                              *)
RequiredPermissions ==
  { {}, {MEASUREMENTS_READ}, {MEASUREMENTS_READ, EMISSION_FACTORS_WRITE} }

(* The permissions column after json.loads: per module, per action, a      *)
(* boolean; NULL and '' read as the empty matrix.                          *)
PermissionMatrices ==
  { << >>,
    "measurements" :> << >>,
    "measurements" :> ("read" :> FALSE),
    "measurements" :> ("read" :> TRUE),
    ("measurements" :> ("read" :> TRUE)) @@ ("emission_factors" :> ("write" :> FALSE)),
    ("measurements" :> ("read" :> TRUE)) @@ ("emission_factors" :> ("write" :> TRUE)) }

(* The rows a request can meet: a user with or without a role, an API key. *)
UserRows ==
  { [is_active |-> active, role |-> role] :
      active \in BOOLEAN,
      role \in {None} \cup {Some(m) : m \in PermissionMatrices} }

APIKeyRows ==
  { [is_active |-> active, expires_at |-> expires_at, permissions |-> m] :
      active \in BOOLEAN, expires_at \in ExpiresAt, m \in PermissionMatrices }

(* A request at a decorated route: the decorator's arguments, the key that *)
(* extract_api_key_from_header finds (None without one), the api_key row   *)
(* with that hash and its owner, the session's user_id and its user row.   *)
(* The role of a key's owner is read by no statement and is left out.      *)
Requests ==
  { request \in
      [allow_session : BOOLEAN, allow_api_key : BOOLEAN,
       permissions : RequiredPermissions,
       api_key_value : {None, Some("esg_key")},
       api_key : {None} \cup {Some(k) : k \in APIKeyRows},
       owner : {None} \cup {Some(u) : u \in UserRows},
       session_user_id : {None, Some(1)},
       session_user : {None} \cup {Some(u) : u \in UserRows}] :
      /\ (request.api_key_value = None => request.api_key = None)
      /\ (request.api_key = None => request.owner = None)
      /\ (request.owner # None => request.owner[1].role = None)
      /\ (request.session_user_id = None => request.session_user = None) }

(* A validation that does not look at expires_at.                          *)
validate_api_key_auth_without_expiry(request) ==
  IF request.api_key_value = None THEN None
  ELSE IF request.api_key = None THEN None
  ELSE IF ~request.api_key[1].is_active THEN None
  ELSE IF request.owner = None \/ ~request.owner[1].is_active THEN None
  ELSE Some([user |-> request.owner[1], api_key |-> request.api_key,
             auth_method |-> "api_key"])

(* 50-92: the auth info of a key that is known, active, not expired and    *)
(* owned by an active user; None otherwise.                                *)
validate_api_key_auth(request) ==
  IF request.api_key_value = None THEN None
  ELSE IF request.api_key = None THEN None
  ELSE IF ~request.api_key[1].is_active THEN None
  ELSE IF /\ request.api_key[1].expires_at # None
          /\ request.api_key[1].expires_at[1] < Now THEN None
  ELSE IF request.owner = None \/ ~request.owner[1].is_active THEN None
  ELSE Some([user |-> request.owner[1], api_key |-> request.api_key,
             auth_method |-> "api_key"])

(* 94-116: the auth info of a session whose user exists and is active.     *)
validate_session_auth(request) ==
  IF request.session_user_id = None THEN None
  ELSE IF request.session_user = None \/ ~request.session_user[1].is_active THEN None
  ELSE Some([user |-> request.session_user[1], api_key |-> None,
             auth_method |-> "session"])

(* 132-138, 156-162: every required permission has its module in the       *)
(* matrix, its action in the module, and a true value there.               *)
has_permissions(matrix, required_permissions) ==
  \A permission \in required_permissions :
     /\ permission[1] \in DOMAIN matrix
     /\ permission[2] \in DOMAIN matrix[permission[1]]
     /\ matrix[permission[1]][permission[2]]

(* 118-174: the key's matrix when the request came with a key, the role's  *)
(* matrix otherwise; a user without a role has no permission.              *)
check_permissions(auth_info, required_permissions) ==
  IF required_permissions = {} THEN TRUE
  ELSE IF auth_info.api_key # None
  THEN has_permissions(auth_info.api_key[1].permissions, required_permissions)
  ELSE IF auth_info.user.role # None
  THEN has_permissions(auth_info.user.role[1], required_permissions)
  ELSE FALSE

(* What the decorator makes of a request: the status it answers itself     *)
(* (200 stands for the handler's own answer), whether the handler ran, and *)
(* g.auth_method.                                                          *)
Outcome(code, invoked, auth_method) ==
  [code |-> code, invoked |-> invoked, auth_method |-> auth_method]

(* 196-254.                                                                *)
require_auth(request) ==
  LET key_auth_info == IF request.allow_api_key /\ request.api_key_value # None
                       THEN validate_api_key_auth(request)
                       ELSE None
      auth_info == IF key_auth_info = None /\ request.allow_session
                   THEN validate_session_auth(request)
                   ELSE key_auth_info
  IN IF request.allow_api_key /\ request.api_key_value # None /\ key_auth_info = None
     THEN Outcome(401, FALSE, "")
     ELSE IF auth_info = None
     THEN Outcome(401, FALSE, "")
     ELSE IF request.permissions # {}
             /\ ~check_permissions(auth_info[1], request.permissions)
     THEN Outcome(403, FALSE, "")
     ELSE Outcome(200, TRUE, auth_info[1].auth_method)

(* A request that has arrived at a decorated route and is not yet passed   *)
(* through the decorator.                                                  *)
Arrived(request) ==
  [op |-> "request", code |-> 0, updated_count |-> 0, total_measurements |-> 0,
   request |-> request]

InitAuth ==
  /\ factors = << >>
  /\ revisions = << >>
  /\ measurements = << >>
  /\ last \in {Arrived(request) : request \in Requests}
  /\ clients = [c \in Clients |-> Idle]
  /\ uncommitted = NoTransaction

(* 195-254: the wrapper runs on the request.                               *)
decorated_function ==
  /\ last.op = "request"
  /\ last' = [op |-> "require_auth", code |-> require_auth(last.request).code,
              updated_count |-> 0, total_measurements |-> 0,
              request |-> last.request,
              invoked |-> require_auth(last.request).invoked,
              auth_method |-> require_auth(last.request).auth_method]
  /\ UNCHANGED <<factors, revisions, measurements>>

(* --------------------------- specifications --------------------------- *)
(* A request handled as one step: no client has a request under way.       *)
Sequential == UNCHANGED <<clients, uncommitted>>

(* A request handled as one step next to requests under way: it writes     *)
(* when no session holds the write lock.                                   *)
Serialized == uncommitted.owner = "none" /\ UNCHANGED <<clients, uncommitted>>

(* A request handled as one step between the requests of the clients.      *)
Quiescent == (\A c \in Clients : ~InFlight(c)) /\ UNCHANGED <<clients, uncommitted>>

(* The factor and revision endpoints alone: no measurement is written.     *)
NextFactors ==
  \/ \E data \in FactorDataTwoValues : create_emission_factor(data) /\ Sequential
  \/ \E f \in FactorIds, data \in FactorDataTwoValues :
        create_revision(f, data) /\ Sequential
  \/ \E r \in RevisionIds : activate_revision(r) /\ Sequential
  \/ \E r \in RevisionIds : delete_revision(r) /\ Sequential
  \/ \E f \in FactorIds : delete_emission_factor(f) /\ Sequential

SpecFactors == Init /\ [][NextFactors]_vars

(* Creation and activation only: nothing is deleted.                       *)
NextSequentialCreate ==
  \/ \E data \in FactorDataTwoValues : create_emission_factor(data) /\ Sequential
  \/ \E f \in FactorIds, data \in FactorDataTwoValues :
        create_revision(f, data) /\ Sequential
  \/ \E r \in RevisionIds : activate_revision(r) /\ Sequential

SpecSequentialCreate == Init /\ [][NextSequentialCreate]_vars

(* Every endpoint, with the factor and revision tables kept to             *)
(* MaxFactorsWithMeasurements and MaxRevisionsWithMeasurements rows.       *)
Next ==
  \/ \E data \in FactorData :
        /\ create_emission_factor(data)
        /\ DOMAIN factors' \subseteq 1 .. MaxFactorsWithMeasurements
        /\ Sequential
  \/ \E f \in FactorIdsWithMeasurements, data \in FactorData :
        /\ create_revision(f, data)
        /\ DOMAIN revisions' \subseteq 1 .. MaxRevisionsWithMeasurements
        /\ Sequential
  \/ \E r \in RevisionIdsWithMeasurements : activate_revision(r) /\ Sequential
  \/ \E r \in RevisionIdsWithMeasurements : delete_revision(r) /\ Sequential
  \/ \E f \in FactorIdsWithMeasurements : delete_emission_factor(f) /\ Sequential
  \/ \E f \in FactorIdsWithMeasurements, a \in Amounts :
        /\ create_measurement(f, a)
        /\ DOMAIN measurements' \subseteq 1 .. MaxMeasurements
        /\ Sequential
  \/ \E m \in MeasurementIds, data \in UpdateBodies :
        update_measurement(m, data) /\ Sequential
  \/ \E m \in MeasurementIds : delete_measurement(m) /\ Sequential
  \/ recalculate_all_emissions /\ Sequential

Spec == Init /\ [][Next]_vars

(* The measurement writes, on factors and revisions that are created and   *)
(* activated but not deleted.                                              *)
NextMeasurementWrites ==
  \/ \E data \in FactorDataTwoValues :
        /\ create_emission_factor(data)
        /\ DOMAIN factors' \subseteq 1 .. MaxFactorsWithMeasurements
        /\ Sequential
  \/ \E f \in FactorIdsWithMeasurements, data \in FactorDataTwoValues :
        /\ create_revision(f, data)
        /\ DOMAIN revisions' \subseteq 1 .. MaxRevisionsWithMeasurements
        /\ Sequential
  \/ \E r \in RevisionIdsWithMeasurements : activate_revision(r) /\ Sequential
  \/ \E f \in FactorIdsWithMeasurements, a \in Amounts :
        /\ create_measurement(f, a)
        /\ DOMAIN measurements' \subseteq 1 .. MaxMeasurements
        /\ Sequential
  \/ \E m \in MeasurementIds, data \in UpdateBodies :
        update_measurement(m, data) /\ Sequential

SpecMeasurementWrites == Init /\ [][NextMeasurementWrites]_vars

(* The reads of measurements, between the writes that make them differ     *)
(* from the stored column.                                                 *)
NextMeasurementReads ==
  \/ \E data \in FactorDataUnrounded :
        /\ create_emission_factor(data)
        /\ DOMAIN factors' \subseteq 1 .. MaxFactorsWithMeasurements
        /\ Sequential
  \/ \E f \in FactorIdsWithMeasurements, data \in FactorDataUnrounded :
        /\ create_revision(f, data)
        /\ DOMAIN revisions' \subseteq 1 .. MaxRevisionsWithMeasurements
        /\ Sequential
  \/ \E r \in RevisionIdsWithMeasurements : activate_revision(r) /\ Sequential
  \/ \E f \in FactorIdsWithMeasurements, a \in Amounts :
        create_measurement(f, a) /\ Sequential
  \/ \E m \in MeasurementIds, data \in UpdateBodies :
        update_measurement(m, data) /\ Sequential
  \/ recalculate_all_emissions /\ Sequential
  \/ get_measurements_summary /\ Sequential
  \/ get_measurements /\ Sequential

SpecMeasurementReads == Init /\ [][NextMeasurementReads]_vars

(* Two clients whose activate_revision requests overlap, statement by      *)
(* statement, on factors and revisions created by requests handled as one  *)
(* step.                                                                   *)
NextActivationRace ==
  \/ \E data \in FactorDataTwoValues :
        /\ Serialized
        /\ create_emission_factor(data)
        /\ DOMAIN factors' \subseteq 1 .. MaxFactorsConcurrent
  \/ \E f \in FactorIdsConcurrent, data \in FactorDataTwoValues :
        /\ Serialized
        /\ create_revision(f, data)
        /\ DOMAIN revisions' \subseteq 1 .. MaxRevisionsConcurrent
  \/ \E c \in Clients, r \in RevisionIdsConcurrent : activate_revision_get(c, r)
  \/ \E c \in Clients : activate_revision_deactivate(c)
  \/ \E c \in Clients : activate_revision_set_active(c)
  \/ \E c \in Clients : activate_revision_commit(c)
  \/ \E c \in Clients : activate_revision_fail(c)

SpecActivationRace == Init /\ [][NextActivationRace]_vars

(* Two clients whose activate_revision and delete_revision requests        *)
(* overlap, statement by statement.                                        *)
NextDeletionRace ==
  \/ \E data \in FactorDataTwoValues :
        /\ Serialized
        /\ create_emission_factor(data)
        /\ DOMAIN factors' \subseteq 1 .. MaxFactorsConcurrent
  \/ \E f \in FactorIdsConcurrent, data \in FactorDataTwoValues :
        /\ Serialized
        /\ create_revision(f, data)
        /\ DOMAIN revisions' \subseteq 1 .. MaxRevisionsConcurrent
  \/ \E c \in Clients, r \in RevisionIdsConcurrent : activate_revision_get(c, r)
  \/ \E c \in Clients : activate_revision_deactivate(c)
  \/ \E c \in Clients : activate_revision_set_active(c)
  \/ \E c \in Clients : activate_revision_commit(c)
  \/ \E c \in Clients : activate_revision_fail(c)
  \/ \E c \in Clients, r \in RevisionIdsConcurrent : delete_revision_get(c, r)
  \/ \E c \in Clients : delete_revision_count(c)
  \/ \E c \in Clients : delete_revision_commit(c)
  \/ \E c \in Clients : delete_revision_fail(c)

SpecDeletionRace == Init /\ [][NextDeletionRace]_vars

(* Two clients whose create_revision requests overlap, statement by        *)
(* statement.                                                              *)
NextCreationRace ==
  \/ \E data \in FactorDataTwoValues :
        /\ Serialized
        /\ create_emission_factor(data)
        /\ DOMAIN factors' \subseteq 1 .. MaxFactorsConcurrent
  \/ \E c \in Clients, f \in FactorIdsConcurrent, data \in FactorData :
        create_revision_read(c, f, data)
  \/ \E c \in Clients : create_revision_commit(c)
  \/ \E c \in Clients : create_revision_fail(c)

SpecCreationRace == Init /\ [][NextCreationRace]_vars

(* Requests at a route decorated with require_auth.                        *)
NextAuth == decorated_function /\ Sequential

SpecAuth == InitAuth /\ [][NextAuth]_vars

(* One client whose recalculate_all_emissions runs statement by statement  *)
(* and may fail, between requests handled as one step.                     *)
NextRecalculationSteps ==
  \/ \E data \in FactorDataTwoValues :
        /\ Quiescent
        /\ create_emission_factor(data)
        /\ DOMAIN factors' \subseteq 1 .. MaxFactorsWithMeasurements
  \/ \E f \in FactorIdsWithMeasurements, data \in FactorDataTwoValues :
        /\ Quiescent
        /\ create_revision(f, data)
        /\ DOMAIN revisions' \subseteq 1 .. MaxRevisionsWithMeasurements
  \/ \E r \in RevisionIdsWithMeasurements : Quiescent /\ activate_revision(r)
  \/ \E f \in FactorIdsWithMeasurements, a \in Amounts :
        /\ Quiescent
        /\ create_measurement(f, a)
        /\ DOMAIN measurements' \subseteq 1 .. MaxMeasurements
  \/ recalculate_all_emissions_scan("a")
  \/ recalculate_all_emissions_row("a")
  \/ recalculate_all_emissions_commit("a")
  \/ recalculate_all_emissions_fail("a")

SpecRecalculationSteps == Init /\ [][NextRecalculationSteps]_vars

(* One client whose recalculate_all_emissions runs statement by statement  *)
(* over up to MaxMeasurementsScanned rows, with a resolver whose query may *)
(* raise.  The pass itself does not fail here.                             *)
NextRecalculationSkips ==
  \/ \E data \in FactorDataTwoValues :
        /\ Quiescent
        /\ create_emission_factor(data)
        /\ DOMAIN factors' \subseteq 1 .. MaxFactorsWithMeasurements
  \/ \E f \in FactorIdsWithMeasurements, data \in FactorDataTwoValues :
        /\ Quiescent
        /\ create_revision(f, data)
        /\ DOMAIN revisions' \subseteq 1 .. MaxRevisionsWithMeasurements
  \/ \E r \in RevisionIdsWithMeasurements : Quiescent /\ activate_revision(r)
  \/ \E f \in FactorIdsWithMeasurements, a \in Amounts :
        Quiescent /\ create_measurement(f, a)
  \/ recalculate_all_emissions_scan("a")
  \/ recalculate_all_emissions_row("a")
  \/ recalculate_all_emissions_row_unresolved("a")
  \/ recalculate_all_emissions_commit("a")

SpecRecalculationSkips == Init /\ [][NextRecalculationSkips]_vars

(* ============================== claims ================================ *)
MirroredFields ==
  {"name", "scope", "category", "sub_category", "factor_value", "unit", "source",
   "effective_date", "description"}

VersionsOf(fid) == {revisions[r].version : r \in RevisionsOf(fid)}

Activated == last.op = "activate_revision" /\ last.code = 200

Recalculated == last.op = "recalculate_all_emissions" /\ last.code = 200

(* C1: in every state reached by create_emission_factor, create_revision,  *)
(* activate_revision, delete_revision and delete_emission_factor, every    *)
(* factor has at most one revision with is_active = true.                  *)
C1_AtMostOneActive ==
  \A f \in FactorIds : Cardinality(ActiveRevisionsOf(f)) <= 1

(* C1 witness: an activation has just run on a factor with several         *)
(* revisions, and one of them is active.                                   *)
C1_Witness ==
  /\ Activated
  /\ \E f \in DOMAIN factors :
       /\ Cardinality(RevisionsOf(f)) >= 2
       /\ Cardinality(ActiveRevisionsOf(f)) = 1

(* C2: whenever a factor has an active revision, the nine mirrored fields  *)
(* of the factor row equal those of that revision.                         *)
C2_ParentMirrorsActive ==
  \A f \in DOMAIN factors : \A r \in ActiveRevisionsOf(f) :
     \A k \in MirroredFields : factors[f][k] = revisions[r][k]

(* C2 witness: a factor with an active revision and with another revision  *)
(* that holds a different value and a different name.                      *)
C2_Witness ==
  \E f \in DOMAIN factors : \E r \in ActiveRevisionsOf(f) : \E q \in RevisionsOf(f) :
     /\ revisions[q].factor_value # revisions[r].factor_value
     /\ revisions[q].name # revisions[r].name

(* C3: a successful activate_revision(R) leaves R active, every other      *)
(* revision of R's parent inactive, and the resolver returning exactly     *)
(* R.factor_value for R's parent.                                          *)
C3_ActivationTakesEffect ==
  [][\A R \in RevisionIds :
       (R \in DOMAIN revisions /\ last'.code = 200 /\ activate_revision(R)) =>
          /\ revisions'[R].is_active
          /\ \A q \in DOMAIN revisions' :
               (q # R /\ revisions'[q].parent_factor_id = revisions[R].parent_factor_id)
                  => ~revisions'[q].is_active
          /\ get_active_emission_factor_value(revisions[R].parent_factor_id)'
               = Some(revisions[R].factor_value)]_vars

(* C3 witness: after an activation, the active revision is not the newest  *)
(* of its factor and its value differs from the newest one's.              *)
C3_Witness ==
  /\ Activated
  /\ \E f \in DOMAIN factors : \E r \in ActiveRevisionsOf(f) :
       /\ r # SetMax(RevisionsOf(f))
       /\ revisions[r].factor_value # revisions[SetMax(RevisionsOf(f))].factor_value

C5_RecalculationBringsUpToDate ==
  [][recalculate_all_emissions =>
       \A m \in DOMAIN measurements :
          measurements[m].emission_factor_id \in DOMAIN factors =>
             LET v == get_active_emission_factor_value(measurements[m].emission_factor_id)
             IN /\ v # None
                /\ Abs(measurements'[m].calculated_emissions
                       - measurements'[m].amount * v[1]) <= Epsilon
                /\ measurements'[m] # measurements[m] =>
                     Abs(measurements[m].calculated_emissions
                         - measurements[m].amount * v[1]) > Epsilon]_vars

(* C6: in the state a recalculate_all_emissions leaves, a second run       *)
(* counts updated_count = 0 and writes every measurement as it is.         *)
C6_SecondRecalculationUpdatesNothing ==
  Recalculated => (updated_count = 0 /\ recalculated_measurements = measurements)

(* C6 witness: a recalculation has just updated every measurement there    *)
(* is, so the second run starts from rows the first one wrote.             *)
C6_Witness ==
  /\ Recalculated
  /\ last.total_measurements >= 1
  /\ last.updated_count = last.total_measurements

(* C7: a measurement created against a factor stores amount times the      *)
(* factor's value, and once a revision of another value is activated and   *)
(* the recalculation has run it stores amount times the revision's value   *)
(* (read up to the 0.001 the recalculation itself tolerates).              *)
C7_RoundTrip ==
  /\ (last.op = "create_measurement" /\ last.code = 201) =>
        LET M == measurements[SetMax(DOMAIN measurements)]
        IN M.calculated_emissions = M.amount * factors[M.emission_factor_id].factor_value
  /\ Recalculated =>
        \A m \in DOMAIN measurements :
           \A r \in ActiveRevisionsOf(measurements[m].emission_factor_id) :
              Abs(measurements[m].calculated_emissions
                  - measurements[m].amount * revisions[r].factor_value) <= Epsilon

(* C8: activate_revision changes no measurement row.                       *)
C8_ActivationLeavesMeasurements ==
  [][\A R \in RevisionIds :
       (last'.op = "activate_revision" /\ activate_revision(R))
          => measurements' = measurements]_vars

(* C8 witness: right after an activation a stored calculated_emissions is  *)
(* stale: it differs from amount times the resolver's value by more than   *)
(* 0.001.                                                                  *)
C8_Witness ==
  /\ Activated
  /\ \E m \in DOMAIN measurements :
       LET v == get_active_emission_factor_value(measurements[m].emission_factor_id)
       IN /\ v # None
          /\ ActiveRevisionsOf(measurements[m].emission_factor_id) # {}
          /\ Abs(measurements[m].calculated_emissions - measurements[m].amount * v[1])
               > Epsilon

(* C9: a successful create_revision gives the new revision the version     *)
(* max + 1 of its factor's versions (1 if there are none) and              *)
(* is_active = false, and changes no other revision and no factor.         *)
C9_CreateRevision ==
  [][\A f \in DOMAIN factors, data \in FactorData :
       (last'.op = "create_revision" /\ last'.code = 200 /\ create_revision(f, data)) =>
          LET id == new_id(revisions)
          IN /\ DOMAIN revisions' = DOMAIN revisions \cup {id}
             /\ id \notin DOMAIN revisions
             /\ revisions'[id].parent_factor_id = f
             /\ IF VersionsOf(f) = {}
                THEN revisions'[id].version = 1
                ELSE /\ revisions'[id].version - 1 \in VersionsOf(f)
                     /\ \A v \in VersionsOf(f) : v < revisions'[id].version
             /\ ~revisions'[id].is_active
             /\ \A r \in DOMAIN revisions : revisions'[r] = revisions[r]
             /\ factors' = factors]_vars

(* C9 witness: a revision was just created for a factor whose versions     *)
(* are 2 and 3 (version 1 was deleted) and which has an active revision.   *)
C9_Witness ==
  /\ last.op = "create_revision" /\ last.code = 200
  /\ \E f \in DOMAIN factors : VersionsOf(f) = {2, 3} /\ ActiveRevisionsOf(f) # {}

(* C10: with nothing deleted, the n-th revision created for a factor has   *)
(* version n, whatever is created for other factors in between.            *)
C10_VersionsCountCreations ==
  \A f \in DOMAIN factors : \A r \in RevisionsOf(f) :
     revisions[r].version = Cardinality({q \in RevisionsOf(f) : q <= r})

(* C10 witness: two revisions of one factor with a revision of another     *)
(* factor created between them.                                            *)
C10_Witness ==
  \E f \in DOMAIN factors, g \in DOMAIN factors :
     /\ f # g
     /\ Cardinality(RevisionsOf(f)) = 2
     /\ \E r \in RevisionsOf(g) :
          SetMin(RevisionsOf(f)) < r /\ r < SetMax(RevisionsOf(f))

(* C11: delete_revision on the active revision answers 400 and leaves     *)
(* every revision, the parent factor and every measurement as they were.   *)
C11_DeleteActiveRejected ==
  [][last'.op = "delete_revision" =>
       \A R \in DOMAIN revisions :
          (revisions[R].is_active /\ delete_revision(R))
          => /\ last'.code = 400
             /\ UNCHANGED <<factors, revisions, measurements>>]_vars

(* A delete was refused although every revision has a sibling: the        *)
(* refusal came from the test of is_active.                                *)
C11_Witness ==
  /\ last.op = "delete_revision"
  /\ last.code = 400
  /\ \E r \in DOMAIN revisions : revisions[r].is_active
  /\ \A r \in DOMAIN revisions :
       Cardinality(RevisionsOf(revisions[r].parent_factor_id)) >= 2

(* C12: delete_revision on the only revision of its parent answers 400,   *)
(* active or not, and leaves revisions, factors and measurements as they   *)
(* were.                                                                   *)
C12_DeleteOnlyRevisionRejected ==
  [][last'.op = "delete_revision" =>
       \A R \in DOMAIN revisions :
          ( /\ RevisionsOf(revisions[R].parent_factor_id) = {R}
            /\ delete_revision(R) )
          => /\ last'.code = 400
             /\ UNCHANGED <<factors, revisions, measurements>>]_vars

(* A delete was refused although no revision is active: the refusal came  *)
(* from the test of revision_count.                                        *)
C12_Witness ==
  /\ last.op = "delete_revision"
  /\ last.code = 400
  /\ DOMAIN revisions # {}
  /\ \A r \in DOMAIN revisions : ~revisions[r].is_active

(* C13: delete_revision on an inactive revision that has a sibling        *)
(* answers 200, removes that row and no other, and leaves every other      *)
(* revision (its is_active included), the factors and the measurements as  *)
(* they were.                                                              *)
C13_DeleteRemovesExactlyOne ==
  [][last'.op = "delete_revision" =>
       \A R \in DOMAIN revisions :
          ( /\ ~revisions[R].is_active
            /\ Cardinality(RevisionsOf(revisions[R].parent_factor_id)) >= 2
            /\ delete_revision(R) )
          => /\ last'.code = 200
             /\ DOMAIN revisions' = DOMAIN revisions \ {R}
             /\ \A r \in DOMAIN revisions' : revisions'[r] = revisions[r]
             /\ UNCHANGED <<factors, measurements>>]_vars

(* A delete succeeded and left its parent with an active revision and an  *)
(* inactive one.                                                           *)
C13_Witness ==
  /\ last.op = "delete_revision"
  /\ last.code = 200
  /\ \E f \in DOMAIN factors :
       /\ Cardinality(RevisionsOf(f)) = 2
       /\ Cardinality(ActiveRevisionsOf(f)) = 1

(* C14: a factor that has a revision and is not removed by                *)
(* delete_emission_factor still has a revision after any step; in          *)
(* particular delete_revision never removes the last one.                  *)
C14_NeverBackToZeroRevisions ==
  [][\A f \in DOMAIN factors :
       (RevisionsOf(f) # {} /\ f \in DOMAIN factors')
       => RevisionsOf(f)' # {}]_vars

(* Deletes have brought a factor down to one revision, and the next       *)
(* delete was refused.                                                     *)
C14_Witness ==
  /\ last.op = "delete_revision"
  /\ last.code = 400
  /\ \E f \in DOMAIN factors :
       \E r \in RevisionsOf(f) :
          /\ RevisionsOf(f) = {r}
          /\ revisions[r].version >= 2
          /\ ~revisions[r].is_active

(* calculated_emissions is what a write of (amount, emission_factor_id)   *)
(* has to store: amount times the resolver's value.                        *)
IsAmountTimesValue(calculated_emissions, amount, emission_factor_id) ==
  LET active_factor_value == get_active_emission_factor_value(emission_factor_id)
  IN /\ active_factor_value # None
     /\ calculated_emissions = amount * active_factor_value[1]

(* C15: create_measurement, and update_measurement when the body holds    *)
(* 'amount' or 'emission_factor_id', store calculated_emissions = amount   *)
(* times the value the resolver returns for the row's factor at the time   *)
(* of the write; an update whose body holds neither leaves                 *)
(* calculated_emissions as it was.  (Each request either stored that       *)
(* value or is not the request of the step.)                               *)
C15_WritesStoreAmountTimesValue ==
  [][/\ (last'.op = "create_measurement" /\ last'.code = 201) =>
        \A f \in FactorIdsWithMeasurements, a \in Amounts :
          \/ /\ DOMAIN measurements' = DOMAIN measurements \cup {new_id(measurements)}
             /\ IsAmountTimesValue(
                  measurements'[new_id(measurements)].calculated_emissions, a, f)
          \/ ~create_measurement(f, a)
     /\ (last'.op = "update_measurement" /\ last'.code = 200) =>
        \A m \in DOMAIN measurements, data \in UpdateBodies :
          \/ IF data.has_amount \/ data.has_emission_factor_id
             THEN IsAmountTimesValue(
                    measurements'[m].calculated_emissions,
                    IF data.has_amount THEN data.amount
                    ELSE measurements[m].amount,
                    IF data.has_emission_factor_id THEN data.emission_factor_id
                    ELSE measurements[m].emission_factor_id)
             ELSE measurements'[m].calculated_emissions
                    = measurements[m].calculated_emissions
          \/ ~update_measurement(m, data)]_vars

(* An update has just written a row whose factor has an active revision,  *)
(* and the row holds amount times the revision's value.                    *)
C15_Witness ==
  /\ last.op = "update_measurement"
  /\ last.code = 200
  /\ \E m \in DOMAIN measurements :
       \E r \in ActiveRevisionsOf(measurements[m].emission_factor_id) :
          /\ measurements[m].amount = 1
          /\ revisions[r].factor_value > 0
          /\ measurements[m].calculated_emissions = revisions[r].factor_value

(* C16: a measurement write that names an emission factor that does not   *)
(* exist answers 400, and no measurement is created or modified.  (A step  *)
(* that is not a 400 leaving the measurements as they were is not such a   *)
(* request.)                                                               *)
C16_UnknownFactorRejected ==
  [][~(last'.code = 400 /\ measurements' = measurements) =>
       /\ last'.op = "create_measurement" =>
            \A f \in FactorIdsWithMeasurements \ DOMAIN factors, a \in Amounts :
               ~create_measurement(f, a)
       /\ last'.op = "update_measurement" =>
            \A m \in DOMAIN measurements, data \in UpdateBodies :
               (data.has_emission_factor_id /\ data.emission_factor_id \notin DOMAIN factors)
               => ~update_measurement(m, data)]_vars

(* An update of an existing measurement was refused; every factor has a   *)
(* value, so the refusal came from the unknown emission_factor_id.         *)
C16_Witness ==
  /\ last.op = "update_measurement"
  /\ last.code = 400
  /\ DOMAIN measurements # {}
  /\ FactorIdsWithMeasurements \ DOMAIN factors # {}

(* C17: activate_revision with an id that names no revision answers 404   *)
(* and changes no revision, factor or measurement.                         *)
C17_ActivateUnknownRevision ==
  [][last'.op = "activate_revision" =>
       \A R \in RevisionIds \ DOMAIN revisions :
          activate_revision(R)
          => /\ last'.code = 404
             /\ UNCHANGED <<factors, revisions, measurements>>]_vars

(* An activation was answered 404 while a factor had an active revision.  *)
C17_Witness ==
  /\ last.op = "activate_revision"
  /\ last.code = 404
  /\ \E r \in DOMAIN revisions : revisions[r].is_active

(* What a reader of the committed tables may see: for every factor at most *)
(* one active revision, and the factor's mirrored fields equal to those of *)
(* its active revision.                                                    *)
CommittedConsistent ==
  \A f \in DOMAIN factors :
     /\ Cardinality(ActiveRevisionsOf(f)) <= 1
     /\ \A r \in ActiveRevisionsOf(f) :
          \A field \in MirroredFields : factors[f][field] = revisions[r][field]

(* C18: an activation is atomic for every reader of the committed tables:  *)
(* they are consistent in every state; a statement of an activation under  *)
(* way leaves them as they are unless it is the commit, after which the    *)
(* target is the one active revision of its parent and the parent mirrors  *)
(* it; a failed activation leaves them as they are and its session keeps   *)
(* no write.                                                               *)
C18_ActivationAtomic ==
  /\ []CommittedConsistent
  /\ [][\A c \in Clients :
          ( /\ clients[c].op = "activate_revision"
            /\ InFlight(c)
            /\ clients'[c].pc # clients[c].pc )
          => IF clients'[c].pc = "done" /\ clients'[c].code = 200
             THEN LET R == clients[c].revision_id
                      f == clients[c].revision[1].parent_factor_id
                  IN /\ ActiveRevisionsOf(f)' = {R}
                     /\ f \in DOMAIN factors' =>
                          \A field \in MirroredFields :
                             factors'[f][field] = revisions'[R][field]
             ELSE /\ UNCHANGED <<factors, revisions, measurements>>
                  /\ clients'[c].pc = "done" => uncommitted'.owner # c]_vars

(* One client's activation has deactivated the parent's revisions in its   *)
(* session and not yet activated the target, the committed tables still    *)
(* show the revision that was active, and the other client's activation    *)
(* has failed.                                                             *)
C18_Witness ==
  \E c \in Clients :
     /\ clients[c].op = "activate_revision"
     /\ clients[c].pc = "deactivated"
     /\ uncommitted.owner = c
     /\ ActiveRevisionsOf(clients[c].revision[1].parent_factor_id) # {}
     /\ \A r \in DOMAIN uncommitted.revisions : ~uncommitted.revisions[r].is_active
     /\ \E d \in Clients \ {c} :
          /\ clients[d].op = "activate_revision"
          /\ clients[d].pc = "done"
          /\ clients[d].code = 500

(* C19: when the two clients' activations of two different revisions of    *)
(* one factor have both been answered 200, exactly one of the two targets  *)
(* is active, no other revision of the factor is, and the factor mirrors   *)
(* the active one.                                                         *)
C19_RaceLeavesOneActive ==
  \A c \in Clients, d \in Clients :
     ( /\ c # d
       /\ clients[c].op = "activate_revision" /\ clients[d].op = "activate_revision"
       /\ clients[c].pc = "done" /\ clients[d].pc = "done"
       /\ clients[c].code = 200 /\ clients[d].code = 200
       /\ clients[c].revision_id # clients[d].revision_id
       /\ clients[c].revision[1].parent_factor_id
            = clients[d].revision[1].parent_factor_id )
     => LET f == clients[c].revision[1].parent_factor_id
            targets == {clients[c].revision_id, clients[d].revision_id}
        IN /\ Cardinality(ActiveRevisionsOf(f)) = 1
           /\ ActiveRevisionsOf(f) \subseteq targets
           /\ f \in DOMAIN factors =>
                \A r \in ActiveRevisionsOf(f) :
                   \A field \in MirroredFields : factors[f][field] = revisions[r][field]

(* Both activations ran at the same time and were answered 200; one target *)
(* is active and the other, whose activation was overwritten, is not.      *)
C19_Witness ==
  \E c \in Clients, d \in Clients :
     /\ c # d
     /\ clients[c].op = "activate_revision" /\ clients[d].op = "activate_revision"
     /\ clients[c].pc = "done" /\ clients[d].pc = "done"
     /\ clients[c].code = 200 /\ clients[d].code = 200
     /\ clients[c].overlaps /\ clients[d].overlaps
     /\ clients[c].revision_id # clients[d].revision_id
     /\ clients[c].revision[1].parent_factor_id = clients[d].revision[1].parent_factor_id
     /\ revisions[clients[c].revision_id].is_active
     /\ ~revisions[clients[d].revision_id].is_active
     /\ revisions[clients[c].revision_id].factor_value
          # revisions[clients[d].revision_id].factor_value

(* C20: a recalculation that fails leaves the measurements as the pass     *)
(* loaded them and keeps no write in its session, so that a second pass    *)
(* produces what an uninterrupted pass over the loaded rows produces; and  *)
(* a pass that is not interrupted commits exactly that.                    *)
C20_RecalculationAllOrNothing ==
  [][\A c \in Clients :
       ( /\ clients[c].op = "recalculate_all_emissions"
         /\ clients[c].pc = "scanning"
         /\ clients'[c].pc = "done" )
       => LET uninterrupted ==
                [m \in DOMAIN clients[c].scan |-> recalculated(clients[c].scan[m])]
          IN IF clients'[c].code = 500
             THEN /\ measurements' = clients[c].scan
                  /\ uncommitted'.owner # c
                  /\ recalculated_measurements' = uninterrupted
             ELSE measurements' = uninterrupted]_vars

(* A pass has failed after its loop had changed a row, and the row is      *)
(* still out of date.                                                      *)
C20_Witness ==
  /\ clients["a"].op = "recalculate_all_emissions"
  /\ clients["a"].pc = "done"
  /\ clients["a"].code = 500
  /\ clients["a"].updated_count >= 1
  /\ \E m \in DOMAIN measurements : needs_update(measurements[m])

(* C23: a version once assigned to a revision of a factor is not assigned *)
(* again.  create_revision assigns next_version, so the claim holds just   *)
(* when the version the next create_revision would assign to a factor      *)
(* never goes down while the factor exists.                                *)
C23_VersionsNeverReused ==
  [][\A f \in DOMAIN factors :
       f \in DOMAIN factors' => next_version(f)' >= next_version(f)]_vars

(* C24: for every factor the resolver returns the factor_value of the     *)
(* base row.                                                               *)
C24_ResolverEqualsBaseRow ==
  \A f \in DOMAIN factors :
     get_active_emission_factor_value(f) = Some(factors[f].factor_value)

(* An activation has just replaced the active revision of a factor by one *)
(* of another value.                                                       *)
C24_Witness ==
  /\ Activated
  /\ \E f \in DOMAIN factors :
       \E r \in ActiveRevisionsOf(f), q \in RevisionsOf(f) :
          /\ revisions[q].version < revisions[r].version
          /\ revisions[q].factor_value # revisions[r].factor_value

(* C25: a factor that has an active revision and is not deleted has       *)
(* exactly one active revision after every step.                           *)
C25_ActiveStaysActive ==
  [][\A f \in DOMAIN factors :
       (ActiveRevisionsOf(f) # {} /\ f \in DOMAIN factors')
       => Cardinality(ActiveRevisionsOf(f)') = 1]_vars

(* Deletes have left a factor with its active revision alone.              *)
C25_Witness ==
  /\ last.op = "delete_revision"
  /\ last.code = 200
  /\ \E f \in DOMAIN factors :
       /\ Cardinality(RevisionsOf(f)) = 1
       /\ ActiveRevisionsOf(f) = RevisionsOf(f)

(* C21: a pass in which the resolver failed for some rows is answered 200; *)
(* it leaves those rows as they were, brings every other row to amount     *)
(* times the resolver's value (within the threshold), and counts the rows  *)
(* it changed.                                                             *)
C21_SkipsUnresolvedRows ==
  [][\A c \in Clients :
       ( /\ clients[c].op = "recalculate_all_emissions"
         /\ clients[c].pc = "scanning"
         /\ clients[c].unresolved # {}
         /\ clients'[c].pc = "done" )
       => /\ clients'[c].code = 200
          /\ DOMAIN measurements' = DOMAIN clients[c].scan
          /\ \A m \in DOMAIN clients[c].scan :
               IF m \in clients[c].unresolved
               THEN measurements'[m] = clients[c].scan[m]
               ELSE LET v == get_active_emission_factor_value(
                               clients[c].scan[m].emission_factor_id)
                    IN v # None =>
                         Abs(measurements'[m].calculated_emissions
                             - measurements'[m].amount * v[1]) <= Epsilon
          /\ clients'[c].updated_count =
               Cardinality({m \in DOMAIN clients[c].scan :
                              measurements'[m] # clients[c].scan[m]})]_vars

(* amount * the resolver's current value, for a measurement whose factor   *)
(* exists.                                                                 *)
LiveEmissions(measurement) ==
  measurement.amount
    * get_active_emission_factor_value(measurement.emission_factor_id)[1]

LiveTotal ==
  SumOver([m \in DOMAIN measurements |-> LiveEmissions(measurements[m])],
          DOMAIN measurements)

StoredTotal ==
  SumOver([m \in DOMAIN measurements |-> stored_emissions(measurements[m])],
          DOMAIN measurements)

(* C22, as stated: the total_emissions that get_measurements_summary       *)
(* reports equals the sum over the measurements of amount * the resolver's *)
(* current value.                                                          *)
C22_TotalIsLiveSum ==
  last.op = "get_measurements_summary" => last.total_emissions = LiveTotal

(* C22, amended: the total_emissions that get_measurements_summary reports *)
(* equals the sum over the measurements of amount * the resolver's current *)
(* value, rounded to two decimals, whatever the stored column holds; it    *)
(* counts every measurement.                                               *)
C22_TotalIsRoundedLiveSum ==
  last.op = "get_measurements_summary"
  => /\ last.code = 200
     /\ last.total_emissions = round(LiveTotal)
     /\ last.total_measurements = Cardinality(DOMAIN measurements)

(* A summary read after an activation without recalculation: the stored    *)
(* column still adds up to the old value, the reported total to the new.   *)
C22_Witness ==
  /\ last.op = "get_measurements_summary"
  /\ \E m \in DOMAIN measurements :
       ActiveRevisionsOf(measurements[m].emission_factor_id) # {}
  /\ Cardinality(DOMAIN measurements) > 1
  /\ round(StoredTotal) # round(LiveTotal)
  /\ last.total_emissions = round(LiveTotal)
  /\ LiveTotal # round(LiveTotal)

C26_ActiveRevisionNeverDeleted ==
  [][/\ \A r \in DOMAIN revisions : revisions[r].is_active => r \in DOMAIN revisions'
     /\ \A f \in DOMAIN factors :
          ActiveRevisionsOf(f) # {} => ActiveRevisionsOf(f)' # {}]_vars

(* C27: while create_revision requests overlap, no two revisions of one    *)
(* factor have the same version.                                           *)
C27_VersionsDistinct ==
  \A r, q \in DOMAIN revisions :
     (r # q /\ revisions[r].parent_factor_id = revisions[q].parent_factor_id)
     => revisions[r].version # revisions[q].version

(* The request presents an API key that is known, active, not expired and  *)
(* owned by an active user.                                                *)
KeyValid(request) ==
  /\ request.api_key_value # None
  /\ request.api_key # None
  /\ request.api_key[1].is_active
  /\ (request.api_key[1].expires_at = None \/ request.api_key[1].expires_at[1] >= Now)
  /\ request.owner # None
  /\ request.owner[1].is_active

(* The request carries the session of a user that exists and is active.    *)
SessionValid(request) ==
  /\ request.session_user_id # None
  /\ request.session_user # None
  /\ request.session_user[1].is_active

(* A matrix grants a permission: the action is present under the module    *)
(* and true.                                                               *)
Grants(matrix, permission) ==
  /\ permission[1] \in DOMAIN matrix
  /\ permission[2] \in DOMAIN matrix[permission[1]]
  /\ matrix[permission[1]][permission[2]]

RoleMatrix(user) == IF user.role = None THEN << >> ELSE user.role[1]

C30_SessionTriedAfterFailedKey ==
  ( /\ last.op = "require_auth"
    /\ last.request.allow_api_key
    /\ last.request.allow_session
    /\ last.request.api_key_value # None
    /\ ~KeyValid(last.request)
    /\ SessionValid(last.request)
    /\ last.request.permissions = {} )
  => last.invoked /\ last.auth_method = "session"

====
